---- MODULE Spec2Model ----
(***************************************************************************)
(* The booking service of the conference-room booking system: the Express  *)
(* handlers of bookingController (createBooking, getUserBookings,          *)
(* getBookingById, cancelBooking, getAllBookings), the protect/authorize   *)
(* middleware in front of them, the clients they                           *)
(* call (room catalog, weather oracle, notification sink) and the Booking  *)
(* collection.  Every `await` of a handler is a point where another        *)
(* request may run, so a handler is one action per stretch of code between *)
(* two awaits.                                                             *)
(*                                                                         *)
(* Dates are day numbers; the server clock runs in UTC, so `new Date(d)`   *)
(* (UTC midnight of d) and `today.setHours(0,0,0,0)` (midnight of the      *)
(* current day) are both whole days.  Prices are kept in cents.            *)
(***************************************************************************)
EXTENDS Integers, Sequences, FiniteSets, TLC

(* ------------------------------ bounds --------------------------------- *)
\* documents the collection may hold when the service starts
MaxSeed == 1
\* the latest day an availability query may name as the end of its range
MaxQueryDate == 10

(* --------------------------- program constants ------------------------- *)
\* the day the server clock shows (new Date() in createBooking)
Today == 1
COMFORTABLE_TEMPERATURE == 21
\* PRICE_ADJUSTMENT_FACTOR 0.05, in percent per degree
PRICE_ADJUSTMENT_FACTOR == 5
MIN_TEMP == 15
MAX_TEMP == 27

(* ------------------------------ universe ------------------------------- *)
\* the requests of one behaviour: each slot serves one request, and the two
\* may overlap in any way
Procs == {"p1", "p2"}
Users == {"alice", "bob", "admin"}
Rooms == {"r1", "r2"}
\* yesterday, today and tomorrow
Dates == (Today - 1)..(Today + 1)
\* a date string that does not match YYYY-MM-DD
MalformedDate == -1
Statuses == {"confirmed", "cancelled", "completed"}
\* the states of a booking that occupy its slot
Live == {"confirmed", "completed"}

\* the principal the identity service returns for a token: role of a user
RoleOf(u) == IF u = "admin" THEN "admin" ELSE "user"
\* the principal's display fields (user.email, user.name of the verify answer)
EmailOf(u) == u \o "@example.com"
NameOf(u) == "Name of " \o u
\* the room snapshot the catalog returns: basePrice in whole dollars
BasePriceOf(r) == IF r = "r1" THEN 100 ELSE 250
\* the catalog is edited by its own service: a room is read as first listed,
\* or renamed, moved and repriced
CatalogRevisions == {"listed", "revised"}
\* getRoomById's answer for room r at a revision of the catalog
RoomSnapshot(r, rev) ==
    IF rev = "listed"
    THEN [name |-> "Room " \o r, locationName |-> "Site of " \o r,
          basePrice |-> BasePriceOf(r)]
    ELSE [name |-> "Suite " \o r, locationName |-> "Annex of " \o r,
          basePrice |-> BasePriceOf(r) + 50]

\* what a request presents to protect: no bearer header, a token the identity
\* service rejects, an identity service that cannot be reached, an identity
\* service that accepts the connection and never answers, or a valid token
\* of a user
Credentials == {"noToken", "badToken", "authDown", "authHangs"} \cup Users

Ops == {"createBooking", "getUserBookings", "getBookingById", "cancelBooking",
        "getAllBookings", "checkRoomAvailability"}

\* what the catalog call of validateRoom can meet
CatalogOutcomes == {"active", "inactive", "notFound", "unavailable"}
\* what the HTTP call to the weather oracle can meet
OracleFailures == {"timeout", "refused", "rateLimited", "unavailable503",
                   "server500", "client400", "successFalse"}
\* the oracle answers a temperature of MIN_TEMP..MAX_TEMP; two of them
ForecastTemps == {COMFORTABLE_TEMPERATURE, MAX_TEMP}
\* what booking.save() can meet
SaveOutcomes == {"ok", "duplicateKey", "unavailable"}
\* what the POST to the notification sink can meet: accepted, or rejected
\* (an error answer, or a sink that is down: both reach the same catch)
SinkOutcomes == {"delivered", "failed"}

VARIABLES
    bookings,   \* the Booking collection: sequence of documents, _id = index
    notifs,     \* notifications handed to axios.post, in dispatch order
    pc,         \* per request slot: where its handler stands
    req,        \* per request slot: the request (operation, credential, inputs)
    loc,        \* per request slot: the handler's local variables
    resp,       \* per request slot: the response sent (code 0: none yet)
    forecasts   \* the Forecast collection of the weather service: a set

vars == <<bookings, notifs, pc, req, loc, resp, forecasts>>

(* ------------------------------ helpers -------------------------------- *)
Abs(x) == IF x < 0 THEN -x ELSE x

\* no date filter in a query string
NoDate == -2
\* a string that is no ObjectId
MalformedId == -1

NoReq == [op |-> "none", cred |-> "noToken", roomId |-> "", date |-> NoDate,
          id |-> 0, userId |-> "", status |-> "",
          startDate |-> NoDate, endDate |-> NoDate, locationId |-> ""]
\* raised: the oracle failure getForecast rethrew to the handler, if any
\* room: the room snapshot validateRoom returned to createBooking
NoLoc == [forecast |-> <<>>, raised |-> "none", doc |-> <<>>, room |-> <<>>]
NoResp == [op |-> "none", code |-> 0, error |-> "", message |-> "",
           data |-> <<>>, existing |-> <<>>, breakdown |-> <<>>,
           bookedDates |-> <<>>, bookingsCount |-> 0, forecast |-> <<>>]

Ids == 1..Len(bookings)
\* what a response shows of document i
Shown(i) == [id |-> i, status |-> bookings[i].status]

(* --------------------------- price calculator -------------------------- *)
\* Math.round(adjustedPrice * 100), the argument given in hundredths of a
\* cent: the nearest whole number of cents.  The argument is a product of
\* doubles: when the exact product lies on a half cent the double lies on
\* either side of it, and the result is either of the two nearest cents.
Math_round(hundredths) ==
    LET cents == hundredths \div 100
        rest == hundredths % 100
    IN  IF rest < 50 THEN {cents}
        ELSE IF rest > 50 THEN {cents + 1}
        ELSE {cents, cents + 1}

\* a calculator that takes the adjustment off the base price
calculateAdjustedPriceDiscount(basePrice, temperature, comfortableTemp, factor) ==
    LET deviation == Abs(temperature - comfortableTemp)
    IN  {[deviation |-> deviation, adjustedPrice |-> a] :
            a \in Math_round(basePrice * (100 - deviation * factor))}

\* a calculator that takes the signed difference for the deviation
calculateAdjustedPriceSigned(basePrice, temperature, comfortableTemp, factor) ==
    LET deviation == temperature - comfortableTemp
    IN  {[deviation |-> deviation, adjustedPrice |-> a] :
            a \in Math_round(basePrice * (100 + deviation * factor))}

\* calculateAdjustedPrice: deviation = |temperature - comfortableTemp|,
\* adjustedPrice = basePrice * (1 + deviation * factor) rounded to cents.
\* basePrice and adjustedPrice are in cents, factor is in percent; the value
\* is the set of results the double arithmetic can give (one result, unless
\* the exact product lies on a half cent).
calculateAdjustedPrice(basePrice, temperature, comfortableTemp, factor) ==
    LET deviation == Abs(temperature - comfortableTemp)
    IN  {[deviation |-> deviation, adjustedPrice |-> a] :
            a \in Math_round(basePrice * (100 + deviation * factor))}

(* ------------------------------ Init ----------------------------------- *)
\* The service starts on a collection that is empty or already holds one
\* booking of alice for room r1 tomorrow, in any status the schema allows.
SeedBooking(s, i) ==
    [userId |-> "alice", roomId |-> "r1", bookingDate |-> Today + 1, status |-> s,
     bookingReference |-> i,
     basePrice |-> BasePriceOf("r1"), temperature |-> COMFORTABLE_TEMPERATURE,
     deviation |-> 0, adjustedPrice |-> BasePriceOf("r1") * 100,
     userEmail |-> EmailOf("alice"), userName |-> NameOf("alice"),
     roomName |-> RoomSnapshot("r1", "listed").name,
     locationName |-> RoomSnapshot("r1", "listed").locationName]

\* the collections a run of the service without overlapping requests leaves:
\* at most MaxSeed documents, at most one of them live
Seeds ==
    {b \in UNION {[1..n -> {SeedBooking(s, i) : s \in Statuses, i \in 1..n}] :
                     n \in 0..MaxSeed} :
        /\ \A i \in DOMAIN b : b[i].bookingReference = i
        /\ Cardinality({i \in DOMAIN b : b[i].status \in Live}) <= 1}

Init ==
    /\ bookings \in Seeds
    /\ notifs = <<>>
    /\ pc = [p \in Procs |-> "idle"]
    /\ req = [p \in Procs |-> NoReq]
    /\ loc = [p \in Procs |-> NoLoc]
    /\ resp = [p \in Procs |-> NoResp]
    /\ forecasts = {}

(* --------------------------- a request ends ---------------------------- *)
\* res.status(code).json(body): the handler is over
Respond(p, op, r) ==
    /\ resp' = [resp EXCEPT ![p] = [r EXCEPT !.op = op]]
    /\ pc' = [pc EXCEPT ![p] = "done"]
    /\ UNCHANGED req

Reply(code, error) == [NoResp EXCEPT !.code = code, !.error = error]
ReplyMsg(code, error, message) ==
    [NoResp EXCEPT !.code = code, !.error = error, !.message = message]
ReplyData(code, data) == [NoResp EXCEPT !.code = code, !.data = data]

\* the handler goes on to its next await
Goto(p, label) ==
    /\ pc' = [pc EXCEPT ![p] = label]
    /\ UNCHANGED <<resp, req>>

(* ------------------------- protect (auth middleware) ------------------- *)
StatusFilters == {"", "cancelled"}

\* the startDate and endDate of the availability queries: one of them
\* missing, or a range from today or tomorrow to today or a later day
AvailabilityRanges ==
    {<<NoDate, Today>>, <<Today, NoDate>>}
    \cup ({Today, Today + 1} \X {Today, MaxQueryDate})

\* the requests a client may send, given the documents the store holds
NewRequests ==
    {[NoReq EXCEPT !.op = "createBooking", !.roomId = r, !.date = d] :
        r \in Rooms, d \in Dates \cup {MalformedDate}}
    \cup {[NoReq EXCEPT !.op = "getUserBookings", !.userId = u, !.status = s] :
        u \in Users, s \in StatusFilters}
    \cup {[NoReq EXCEPT !.op = o, !.id = i] :
        o \in {"getBookingById", "cancelBooking"},
        i \in (1..(Len(bookings) + 1)) \cup {MalformedId}}
    \cup {[NoReq EXCEPT !.op = "getAllBookings", !.status = s, !.roomId = r,
                        !.date = d] :
        s \in StatusFilters, r \in {"", "r1"}, d \in {NoDate, Today + 1}}
    \cup {[NoReq EXCEPT !.op = "checkRoomAvailability", !.roomId = r,
                        !.startDate = q[1], !.endDate = q[2]] :
        r \in Rooms, q \in AvailabilityRanges}

\* an identity check that lets a rejected token through
verifyTokenLenient(cred) ==
    [thrown |-> cred = "authDown", message |-> "Authentication failed"]

\* verifyToken (authService): whether an Error is thrown, and its message.
\* The axios.get is given no timeout: it settles only when the identity
\* service answers or the connection fails.
verifyToken(cred) ==
    IF cred \in Users
    THEN [thrown |-> FALSE, message |-> ""]
    ELSE [thrown |-> TRUE,
          message |-> IF cred = "badToken" THEN "Invalid token"
                      ELSE "Authentication failed"]

\* router.use(protect): a request arrives in a free slot.  Without a bearer
\* header, or when verifyToken throws, it is answered 401 and no controller
\* runs; otherwise req.user is set and the route's handler runs next.  While
\* the identity service does not answer, the request waits on line 21.
protect(p) ==
    /\ pc[p] = "idle"
    /\ \E r \in NewRequests, c \in Credentials :
        IF c = "noToken"
        THEN /\ req' = [req EXCEPT ![p] = [NoReq EXCEPT !.op = r.op, !.cred = c]]
             /\ resp' = [resp EXCEPT ![p] =
                    [Reply(401, "Access denied. No token provided.")
                     EXCEPT !.op = r.op]]
             /\ pc' = [pc EXCEPT ![p] = "done"]
        ELSE IF c = "authHangs"
        THEN /\ req' = [req EXCEPT ![p] = [NoReq EXCEPT !.op = r.op, !.cred = c]]
             /\ pc' = [pc EXCEPT ![p] = "verifyToken"]
             /\ UNCHANGED resp
        ELSE IF verifyToken(c).thrown
        THEN /\ req' = [req EXCEPT ![p] = [NoReq EXCEPT !.op = r.op, !.cred = c]]
             /\ resp' = [resp EXCEPT ![p] =
                    [ReplyMsg(401, "Invalid or expired token",
                              verifyToken(c).message) EXCEPT !.op = r.op]]
             /\ pc' = [pc EXCEPT ![p] = "done"]
        ELSE /\ req' = [req EXCEPT ![p] = [r EXCEPT !.cred = c]]
             /\ pc' = [pc EXCEPT ![p] = "route"]
             /\ UNCHANGED resp
    /\ UNCHANGED <<bookings, notifs, loc, forecasts>>

\* req.user of a request that passed protect
Principal(p) == req[p].cred

\* the handler of operation op is about to run for the request in slot p
Routed(p, op) == pc[p] = "route" /\ req[p].op = op

(* ------------------------------ clients -------------------------------- *)
\* getRoomById + validateRoom (roomService): whether an Error is thrown, and
\* its message, for what the catalog call meets (for a catalog that cannot
\* be reached the message is that of the axios error)
validateRoom(outcome) ==
    CASE outcome = "active" -> [thrown |-> FALSE, message |-> ""]
      [] outcome = "inactive" ->
            [thrown |-> TRUE, message |-> "Room is not available for booking"]
      [] outcome = "notFound" -> [thrown |-> TRUE, message |-> "Room not found"]
      [] OTHER -> [thrown |-> TRUE, message |-> "connect ECONNREFUSED"]

\* getForecast (weatherService): the forecast returned, or the Error thrown,
\* for what the call to the oracle meets.  Only a 429, a 503 and an axios
\* timeout (ECONNABORTED) lead to the default forecast; every other failure
\* is rethrown, with the oracle's error text when it sent one.
getForecast(outcome, temperature) ==
    IF outcome = "ok"
    THEN [thrown |-> FALSE, message |-> "", temperature |-> temperature,
          deviation |-> Abs(temperature - COMFORTABLE_TEMPERATURE),
          fallback |-> FALSE]
    ELSE IF outcome \in {"rateLimited", "unavailable503", "timeout"}
    THEN [thrown |-> FALSE, message |-> "",
          temperature |-> COMFORTABLE_TEMPERATURE,
          deviation |-> 0, fallback |-> TRUE]
    ELSE [thrown |-> TRUE,
          message |-> CASE outcome = "server500" ->
                               "Failed to generate weather forecast"
                        [] outcome = "client400" -> "Invalid date format"
                        [] OTHER -> "Weather service unavailable",
          temperature |-> 0, deviation |-> 0, fallback |-> FALSE]

\* sendBookingConfirmation / sendCancellationNotification up to their await:
\* the POST is handed to axios
Dispatch(type, id) ==
    notifs' = Append(notifs, [type |-> type, bookingId |-> id, state |-> "pending"])

\* a client whose catch is missing: the rejection of the POST reaches the
\* request that dispatched it and turns its answer into a 500
notification_settle_rethrown(i) ==
    /\ i \in 1..Len(notifs)
    /\ notifs[i].state = "pending"
    /\ \E o \in SinkOutcomes :
        /\ notifs' = [notifs EXCEPT ![i].state = o]
        /\ resp' = [p \in Procs |->
              IF /\ o = "failed"
                 /\ resp[p].op \in {"createBooking", "cancelBooking"}
                 /\ resp[p].code \in {200, 201}
                 /\ resp[p].data[1].id = notifs[i].bookingId
              THEN ReplyMsg(500, "Failed to create booking", "Notification failed")
              ELSE resp[p]]
    /\ UNCHANGED <<bookings, pc, req, loc, forecasts>>

\* the POST of a dispatched notification settles: the sink accepted it, or
\* the call failed.  The failure is caught inside sendBookingConfirmation /
\* sendCancellationNotification and only logged.
notification_settle(i) ==
    /\ i \in 1..Len(notifs)
    /\ notifs[i].state = "pending"
    /\ \E o \in SinkOutcomes : notifs' = [notifs EXCEPT ![i].state = o]
    /\ UNCHANGED <<bookings, pc, req, loc, resp, forecasts>>

(* ----------------------------- createBooking --------------------------- *)
\* bookingValidation: the date matches YYYY-MM-DD and new Date(date) is not
\* before midnight of the current day
bookingValidation(date) == date # MalformedDate /\ ~(date < Today)

\* a probe whose status filter is 'confirmed' alone
findConfirmedByRoomAndDate(roomId, date) ==
    {i \in Ids : /\ bookings[i].roomId = roomId
                 /\ bookings[i].bookingDate = date
                 /\ bookings[i].status = "confirmed"}

\* a probe without a status filter
findAnyByRoomAndDate(roomId, date) ==
    {i \in Ids : /\ bookings[i].roomId = roomId
                 /\ bookings[i].bookingDate = date}

\* the documents findOne({roomId, bookingDate, status in Live}) can return
findActiveByRoomAndDate(roomId, date) ==
    {i \in Ids : /\ bookings[i].roomId = roomId
                 /\ bookings[i].bookingDate = date
                 /\ bookings[i].status \in Live}

\* a handler that calls validateRoom whatever the date
createBooking_start_unchecked(p) ==
    /\ Routed(p, "createBooking")
    /\ Goto(p, "validateRoom")
    /\ UNCHANGED <<bookings, notifs, loc, forecasts>>

\* createBooking lines 73-99: validators, the date check, then the call of
\* validateRoom
createBooking_start(p) ==
    /\ Routed(p, "createBooking")
    /\ IF ~bookingValidation(req[p].date)
       THEN Respond(p, "createBooking", Reply(400, "Validation failed"))
       ELSE IF req[p].date < Today
       THEN Respond(p, "createBooking",
                    Reply(400, "Booking date must be in the future"))
       ELSE Goto(p, "validateRoom")
    /\ UNCHANGED <<bookings, notifs, loc, forecasts>>

\* line 99 returns, lines 101-106: the availability probe is issued
createBooking_room(p) ==
    /\ pc[p] = "validateRoom"
    /\ \E o \in CatalogOutcomes :
        IF validateRoom(o).thrown
        THEN /\ Respond(p, "createBooking",
                        ReplyMsg(500, "Failed to create booking",
                                 validateRoom(o).message))
             /\ UNCHANGED loc
        ELSE \E rev \in CatalogRevisions :
                /\ loc' = [loc EXCEPT ![p].room = <<RoomSnapshot(req[p].roomId, rev)>>]
                /\ Goto(p, "findExisting")
    /\ UNCHANGED <<bookings, notifs, forecasts>>

\* a handler that calls getForecast whatever the probe found
createBooking_probe_blind(p) ==
    /\ pc[p] = "findExisting"
    /\ Goto(p, "weather")
    /\ UNCHANGED <<bookings, notifs, loc, forecasts>>

\* lines 102-121: findOne answers; a live booking in the slot ends the
\* request with 400, otherwise getForecast is called
createBooking_probe(p) ==
    /\ pc[p] = "findExisting"
    /\ LET found == findActiveByRoomAndDate(req[p].roomId, req[p].date)
       IN  IF found = {}
           THEN Goto(p, "weather")
           ELSE \E i \in found :
                  Respond(p, "createBooking",
                          [Reply(400, "Room is already booked for this date")
                           EXCEPT !.existing = <<Shown(i)>>])
    /\ UNCHANGED <<bookings, notifs, loc, forecasts>>

\* lines 121-150: getForecast answers (or throws), the price is computed,
\* the document is built and save() is called
createBooking_weather(p) ==
    /\ pc[p] = "weather"
    /\ \E o \in {"ok"} \cup OracleFailures, t \in ForecastTemps :
        /\ (o # "ok" => t = COMFORTABLE_TEMPERATURE)
        /\ LET f == getForecast(o, t)
           IN  IF f.thrown
               THEN /\ loc' = [loc EXCEPT ![p].raised = o]
                    /\ Respond(p, "createBooking",
                          ReplyMsg(500, "Failed to create booking", f.message))
               ELSE /\ loc' = [loc EXCEPT ![p].forecast =
                                 <<[temperature |-> f.temperature,
                                    deviation |-> f.deviation,
                                    fallback |-> f.fallback]>>]
                    /\ Goto(p, "save")
    /\ UNCHANGED <<bookings, notifs, forecasts>>

\* lines 124-132: the price of the request's room at the forecast temperature
\* (for a price in whole dollars the calculator has one result)
PriceOf(p) ==
    CHOOSE r \in calculateAdjustedPrice(loc[p].room[1].basePrice * 100,
                                        loc[p].forecast[1].temperature,
                                        COMFORTABLE_TEMPERATURE,
                                        PRICE_ADJUSTMENT_FACTOR) : TRUE

\* a document built with the price the room was first listed at, whatever
\* the catalog returned in this call
NewBookingListedPrice(p) ==
    [userId |-> Principal(p), roomId |-> req[p].roomId,
     bookingDate |-> req[p].date, status |-> "confirmed",
     bookingReference |-> Len(bookings) + 1,
     basePrice |-> BasePriceOf(req[p].roomId),
     temperature |-> loc[p].forecast[1].temperature,
     deviation |-> PriceOf(p).deviation,
     adjustedPrice |-> PriceOf(p).adjustedPrice,
     userEmail |-> EmailOf(Principal(p)), userName |-> NameOf(Principal(p)),
     roomName |-> loc[p].room[1].name,
     locationName |-> loc[p].room[1].locationName]

\* the document createBooking builds (lines 135-148)
NewBooking(p) ==
    [userId |-> Principal(p), roomId |-> req[p].roomId,
     bookingDate |-> req[p].date, status |-> "confirmed",
     bookingReference |-> Len(bookings) + 1,
     basePrice |-> loc[p].room[1].basePrice,
     temperature |-> loc[p].forecast[1].temperature,
     deviation |-> PriceOf(p).deviation,
     adjustedPrice |-> PriceOf(p).adjustedPrice,
     userEmail |-> EmailOf(Principal(p)), userName |-> NameOf(Principal(p)),
     roomName |-> loc[p].room[1].name,
     locationName |-> loc[p].room[1].locationName]

\* the priceBreakdown of the 201 response (lines 171-178)
PriceBreakdown(p) ==
    [basePrice |-> loc[p].room[1].basePrice,
     temperature |-> loc[p].forecast[1].temperature,
     comfortableTemperature |-> COMFORTABLE_TEMPERATURE,
     deviation |-> PriceOf(p).deviation,
     adjustmentFactor |-> PRICE_ADJUSTMENT_FACTOR,
     adjustedPrice |-> PriceOf(p).adjustedPrice]

\* a handler that awaits the confirmation before it answers
createBooking_save_awaiting(p) ==
    /\ pc[p] = "save"
    /\ \E o \in SaveOutcomes :
        IF o = "ok"
        THEN /\ bookings' = Append(bookings, NewBooking(p))
             /\ Dispatch("booking_confirmation", Len(bookings) + 1)
             /\ Goto(p, "awaitNotification")
        ELSE /\ Respond(p, "createBooking",
                        ReplyMsg(500, "Failed to create booking", "store unavailable"))
             /\ UNCHANGED <<bookings, notifs>>
    /\ UNCHANGED <<loc, forecasts>>

\* a handler whose document stays in the collection when it answers 500
createBooking_save_partial(p) ==
    /\ pc[p] = "save"
    /\ \E o \in SaveOutcomes :
        /\ bookings' = Append(bookings, NewBooking(p))
        /\ IF o = "ok"
           THEN /\ Dispatch("booking_confirmation", Len(bookings) + 1)
                /\ Respond(p, "createBooking",
                           [ReplyData(201, <<[id |-> Len(bookings) + 1,
                                              status |-> "confirmed"]>>)
                            EXCEPT !.breakdown = <<PriceBreakdown(p)>>])
           ELSE /\ Respond(p, "createBooking",
                           ReplyMsg(500, "Failed to create booking", "store unavailable"))
                /\ UNCHANGED notifs
    /\ UNCHANGED <<loc, forecasts>>

\* lines 150-180: save() answers; on success the confirmation is dispatched
\* without being awaited and 201 is sent with the price breakdown
createBooking_save(p) ==
    /\ pc[p] = "save"
    /\ \E o \in SaveOutcomes :
        IF o = "ok"
        THEN /\ bookings' = Append(bookings, NewBooking(p))
             /\ Dispatch("booking_confirmation", Len(bookings) + 1)
             /\ Respond(p, "createBooking",
                        [ReplyData(201, <<[id |-> Len(bookings) + 1,
                                           status |-> "confirmed"]>>)
                         EXCEPT !.breakdown = <<PriceBreakdown(p)>>])
        ELSE /\ Respond(p, "createBooking",
                        ReplyMsg(500, "Failed to create booking",
                                 IF o = "duplicateKey"
                                 THEN "E11000 duplicate key error"
                                 ELSE "store unavailable"))
             /\ UNCHANGED <<bookings, notifs>>
    /\ UNCHANGED <<loc, forecasts>>

(* --------------------------- reading bookings -------------------------- *)
\* the orders .sort({field: -1}) may return the documents of S in, key[i]
\* being the sort field of document i: descending, equal keys in any order
SortedDesc(S, key) ==
    {s \in [1..Cardinality(S) -> S] :
        /\ \A i, j \in DOMAIN s : i # j => s[i] # s[j]
        /\ \A i, j \in DOMAIN s : i < j => key[s[i]] >= key[s[j]]}

\* a rule that lets every authenticated user through
AnyoneMayAccess(user, ownerId) == TRUE

\* the owner-or-admin rule of getUserBookings, getBookingById, cancelBooking
MayAccess(user, ownerId) == user = ownerId \/ RoleOf(user) = "admin"

\* Booking.find({userId, status?}).sort({bookingDate: -1}): documents of equal
\* bookingDate come in an order the query does not fix
findByUser(userId, status) ==
    SortedDesc({i \in Ids : /\ bookings[i].userId = userId
                            /\ (status # "" => bookings[i].status = status)},
               [i \in Ids |-> bookings[i].bookingDate])

\* getUserBookings (lines 196-231)
getUserBookings(p) ==
    /\ Routed(p, "getUserBookings")
    /\ IF ~MayAccess(Principal(p), req[p].userId)
       THEN Respond(p, "getUserBookings",
                Reply(403, "Access denied. You can only view your own bookings."))
       ELSE \E s \in findByUser(req[p].userId, req[p].status) :
                Respond(p, "getUserBookings",
                        ReplyData(200, [k \in DOMAIN s |-> Shown(s[k])]))
    /\ UNCHANGED <<bookings, notifs, loc, forecasts>>

\* what findById(id) ends in, before any rule of the handler: a CastError for
\* a malformed id, no document, or the document
findById(id) ==
    IF id = MalformedId THEN "CastError"
    ELSE IF id \notin Ids THEN "null" ELSE "found"

\* getBookingById (lines 237-279)
getBookingById(p) ==
    /\ Routed(p, "getBookingById")
    /\ CASE findById(req[p].id) = "CastError" ->
                Respond(p, "getBookingById", Reply(400, "Invalid booking ID format"))
         [] findById(req[p].id) = "null" ->
                Respond(p, "getBookingById", Reply(404, "Booking not found"))
         [] OTHER ->
                IF ~MayAccess(Principal(p), bookings[req[p].id].userId)
                THEN Respond(p, "getBookingById",
                         Reply(403, "Access denied. You can only view your own bookings."))
                ELSE Respond(p, "getBookingById",
                         ReplyData(200, <<Shown(req[p].id)>>))
    /\ UNCHANGED <<bookings, notifs, loc, forecasts>>

\* a role check that lets every authenticated user through
authorizeAnyone(role, user) == TRUE

\* authorize('admin') (auth middleware, lines 39-57)
authorize(role, user) == RoleOf(user) = role

\* Booking.find(query).sort({createdAt: -1}) of getAllBookings: the status and
\* roomId filters select on the fields of those names; the date filter is put
\* in the query as `date`, a path the schema does not have, which the query
\* layer either strips (strictQuery) or sends to the store, where no document
\* matches it
findAll(status, roomId, date, strictQuery) ==
    SortedDesc({i \in Ids : /\ (status # "" => bookings[i].status = status)
                            /\ (roomId # "" => bookings[i].roomId = roomId)
                            /\ (date # NoDate => strictQuery)},
               [i \in Ids |-> i])

\* getAllBookings behind authorize('admin') (routes line 26, lines 363-389)
getAllBookings(p) ==
    /\ Routed(p, "getAllBookings")
    /\ IF ~authorize("admin", Principal(p))
       THEN Respond(p, "getAllBookings",
                    Reply(403, "Access denied. Required role: admin"))
       ELSE \E strictQuery \in BOOLEAN :
            \E s \in findAll(req[p].status, req[p].roomId, req[p].date, strictQuery) :
                Respond(p, "getAllBookings",
                        ReplyData(200, [k \in DOMAIN s |-> Shown(s[k])]))
    /\ UNCHANGED <<bookings, notifs, loc, forecasts>>

(* ------------------------- checkRoomAvailability ----------------------- *)
\* a date string whose fields are not zero-padded
DateStringUnpadded(d) == IF d < 10 THEN <<d>> ELSE <<d \div 10, d % 10>>

\* the day part of a YYYY-MM-DD string: bookingDate is stored, and the query
\* parameters arrive, as strings with zero-padded fields
DateString(d) == <<d \div 10, d % 10>>

\* a <= b for two strings, as $gte / $lte compare them: by the first
\* character in which they differ, a proper prefix being the smaller
StringLeq(a, b) ==
    \E k \in 0..Len(a) :
        /\ k <= Len(b)
        /\ \A m \in 1..k : a[m] = b[m]
        /\ \/ k = Len(a)
           \/ (k < Len(b) /\ a[k + 1] < b[k + 1])

\* Booking.find({roomId, bookingDate: {$gte, $lte}, status in Live})
\* .sort({bookingDate: 1}) (lines 408-415): ascending, equal dates in any order
findByRoomInRange(roomId, startDate, endDate) ==
    SortedDesc({i \in Ids :
                  /\ bookings[i].roomId = roomId
                  /\ StringLeq(DateString(startDate), DateString(bookings[i].bookingDate))
                  /\ StringLeq(DateString(bookings[i].bookingDate), DateString(endDate))
                  /\ bookings[i].status \in Live},
               [i \in Ids |-> -bookings[i].bookingDate])

\* checkRoomAvailability (lines 395-438)
checkRoomAvailability(p) ==
    /\ Routed(p, "checkRoomAvailability")
    /\ IF req[p].startDate = NoDate \/ req[p].endDate = NoDate
       THEN Respond(p, "checkRoomAvailability",
                    Reply(400, "Start date and end date are required"))
       ELSE \E s \in findByRoomInRange(req[p].roomId, req[p].startDate,
                                        req[p].endDate) :
                Respond(p, "checkRoomAvailability",
                        [Reply(200, "") EXCEPT
                            !.bookedDates = [k \in DOMAIN s |-> bookings[s[k]].bookingDate],
                            !.bookingsCount = Len(s)])
    /\ UNCHANGED <<bookings, notifs, loc, forecasts>>

(* ----------------------------- cancelBooking --------------------------- *)
\* status guards that know the cancelled state alone
CancelRefusalCancelledOnly(status) ==
    IF status = "cancelled" THEN "Booking is already cancelled" ELSE ""

\* status guards that let every document through
CancelRefusalNone(status) == ""

\* lines 306-320: the error the status guards of cancelBooking answer for a
\* document of that status; "" when they let the cancellation through
CancelRefusal(status) ==
    IF status = "cancelled" THEN "Booking is already cancelled"
    ELSE IF status = "completed" THEN "Cannot cancel completed bookings"
    ELSE ""

\* lines 285-323: findById answers, then the owner-or-admin rule and the two
\* status guards on the document as read; if all pass, status is set on the
\* in-memory document and save() is called
cancelBooking_find(p) ==
    /\ Routed(p, "cancelBooking")
    /\ CASE findById(req[p].id) = "CastError" ->
                /\ Respond(p, "cancelBooking", Reply(400, "Invalid booking ID format"))
                /\ UNCHANGED loc
         [] findById(req[p].id) = "null" ->
                /\ Respond(p, "cancelBooking", Reply(404, "Booking not found"))
                /\ UNCHANGED loc
         [] OTHER ->
             LET booking == bookings[req[p].id]
             IN  IF ~MayAccess(Principal(p), booking.userId)
                 THEN /\ Respond(p, "cancelBooking",
                          Reply(403, "Access denied. You can only cancel your own bookings."))
                      /\ UNCHANGED loc
                 ELSE IF CancelRefusal(booking.status) # ""
                 THEN /\ Respond(p, "cancelBooking",
                               Reply(400, CancelRefusal(booking.status)))
                      /\ UNCHANGED loc
                 ELSE /\ loc' = [loc EXCEPT ![p].doc = <<req[p].id>>]
                      /\ Goto(p, "cancelSave")
    /\ UNCHANGED <<bookings, notifs, forecasts>>

\* a handler that, when it cancels, also rewrites the room's display name
\* from the catalog as it is now
cancelBooking_save_refreshing(p) ==
    /\ pc[p] = "cancelSave"
    /\ \E o \in SaveOutcomes \ {"duplicateKey"} :
        IF o = "ok"
        THEN /\ bookings' = [bookings EXCEPT
                    ![loc[p].doc[1]].status = "cancelled",
                    ![loc[p].doc[1]].roomName =
                        RoomSnapshot(bookings[loc[p].doc[1]].roomId, "revised").name]
             /\ Dispatch("booking_cancellation", loc[p].doc[1])
             /\ Respond(p, "cancelBooking",
                        ReplyData(200, <<[id |-> loc[p].doc[1],
                                          status |-> "cancelled"]>>))
        ELSE /\ Respond(p, "cancelBooking",
                        ReplyMsg(500, "Failed to cancel booking", "store unavailable"))
             /\ UNCHANGED <<bookings, notifs>>
    /\ UNCHANGED <<loc, forecasts>>

\* a handler that dispatches the cancellation notification before save()
\* answers
cancelBooking_save_eager(p) ==
    /\ pc[p] = "cancelSave"
    /\ Dispatch("booking_cancellation", loc[p].doc[1])
    /\ \E o \in SaveOutcomes \ {"duplicateKey"} :
        IF o = "ok"
        THEN /\ bookings' = [bookings EXCEPT ![loc[p].doc[1]].status = "cancelled"]
             /\ Respond(p, "cancelBooking",
                        ReplyData(200, <<[id |-> loc[p].doc[1],
                                          status |-> "cancelled"]>>))
        ELSE /\ Respond(p, "cancelBooking",
                        ReplyMsg(500, "Failed to cancel booking", "store unavailable"))
             /\ UNCHANGED bookings
    /\ UNCHANGED <<loc, forecasts>>

\* lines 323-339: save() answers: the document's status is written, the
\* cancellation notification is dispatched without being awaited, 200 is sent
cancelBooking_save(p) ==
    /\ pc[p] = "cancelSave"
    /\ \E o \in SaveOutcomes \ {"duplicateKey"} :
        IF o = "ok"
        THEN /\ bookings' = [bookings EXCEPT ![loc[p].doc[1]].status = "cancelled"]
             /\ Dispatch("booking_cancellation", loc[p].doc[1])
             /\ Respond(p, "cancelBooking",
                        ReplyData(200, <<[id |-> loc[p].doc[1],
                                          status |-> "cancelled"]>>))
        ELSE /\ Respond(p, "cancelBooking",
                        ReplyMsg(500, "Failed to cancel booking", "store unavailable"))
             /\ UNCHANGED <<bookings, notifs>>
    /\ UNCHANGED <<loc, forecasts>>

Next ==
    \/ \E p \in Procs : protect(p)
    \/ \E p \in Procs : createBooking_start(p)
    \/ \E p \in Procs : createBooking_room(p)
    \/ \E p \in Procs : createBooking_probe(p)
    \/ \E p \in Procs : createBooking_weather(p)
    \/ \E p \in Procs : createBooking_save(p)
    \/ \E p \in Procs : getUserBookings(p)
    \/ \E p \in Procs : getBookingById(p)
    \/ \E p \in Procs : cancelBooking_find(p)
    \/ \E p \in Procs : cancelBooking_save(p)
    \/ \E p \in Procs : getAllBookings(p)
    \/ \E p \in Procs : checkRoomAvailability(p)
    \/ \E i \in 1..Len(notifs) : notification_settle(i)

Spec == Init /\ [][Next]_vars

(* ---------------------- the price calculator alone --------------------- *)
\* base prices in cents: $100, $250, $99.99, $0.50 and $0.01
BasePrices == {10000, 25000, 9999, 50, 1, 0}

\* the arguments of a call of calculateAdjustedPrice: the temperatures the
\* oracle can answer, the configured comfortable temperature and factor or
\* another pair of settings
PriceInputs ==
    [basePrice : BasePrices, temperature : MIN_TEMP..MAX_TEMP,
     comfortableTemp : {COMFORTABLE_TEMPERATURE, COMFORTABLE_TEMPERATURE - 1},
     factor : {PRICE_ADJUSTMENT_FACTOR, 2 * PRICE_ADJUSTMENT_FACTOR, 0}]

\* each slot holds the arguments of one call
InitPrice ==
    /\ bookings = <<>>
    /\ notifs = <<>>
    /\ pc = [p \in Procs |-> "idle"]
    /\ req = [p \in Procs |-> NoReq]
    /\ loc \in [Procs -> PriceInputs]
    /\ resp = [p \in Procs |-> NoResp]
    /\ forecasts = {}

\* the call returns
calculateAdjustedPrice_call(p) ==
    /\ pc[p] = "idle"
    /\ \E r \in calculateAdjustedPrice(loc[p].basePrice, loc[p].temperature,
                                        loc[p].comfortableTemp, loc[p].factor) :
          resp' = [resp EXCEPT ![p] =
                     [NoResp EXCEPT !.op = "calculateAdjustedPrice",
                                    !.breakdown = <<r>>]]
    /\ pc' = [pc EXCEPT ![p] = "done"]
    /\ UNCHANGED <<bookings, notifs, req, loc, forecasts>>

NextPrice == \E p \in Procs : calculateAdjustedPrice_call(p)

SpecPrice == InitPrice /\ [][NextPrice]_vars

(* --------------------------- the weather service ----------------------- *)
\* a locationId of 24 characters, and one that is shorter
WeatherLocations == {"locationA"}
InvalidLocation == "short"
\* what Forecast.findOne, save and deleteOne can meet besides an answer
\* (a duplicate key is decided by the unique index, not drawn)
ForecastStoreOutcomes == {"ok", "error"}

\* the requests the weather service serves: GET and DELETE
\* /forecast/:locationId/:date
WeatherRequests ==
    {[NoReq EXCEPT !.op = op, !.locationId = l, !.date = d] :
        op \in {"getForecast", "clearForecastCache"},
        l \in WeatherLocations \cup {InvalidLocation},
        d \in {Today, Today + 1, MalformedDate}}

\* Forecast.findOne({locationId, date}): the cached documents of the key
findForecast(locationId, date) ==
    {f \in forecasts : f.locationId = locationId /\ f.date = date}

\* calculateDeviation of the weather service (lines 18-20)
calculateDeviation(temperature) == Abs(temperature - COMFORTABLE_TEMPERATURE)

\* lines 69-80: forecastData for a generated temperature
ForecastData(temperature, cached) ==
    [temperature |-> temperature, deviation |-> calculateDeviation(temperature),
     cached |-> cached]

\* res.status(code).json(...) of the weather service
WeatherRespond(p, op, code, error, data) ==
    /\ resp' = [resp EXCEPT ![p] = [NoResp EXCEPT !.op = op, !.code = code,
                                                  !.error = error, !.forecast = data]]
    /\ pc' = [pc EXCEPT ![p] = "done"]

\* lines 69-91, reached without a cached forecast: a temperature of
\* MIN_TEMP..MAX_TEMP is generated; with the store connected (readyState)
\* the new document is handed to save(), otherwise 200 is sent at once
weather_generate(p, readyState) ==
    \E t \in MIN_TEMP..MAX_TEMP :
        IF readyState
        THEN /\ loc' = [loc EXCEPT ![p].forecast = <<ForecastData(t, FALSE)>>]
             /\ pc' = [pc EXCEPT ![p] = "saveForecast"]
             /\ UNCHANGED resp
        ELSE /\ WeatherRespond(p, "getForecast", 200, "", <<ForecastData(t, FALSE)>>)
             /\ UNCHANGED loc

\* getForecast of the weather service, lines 26-49 (and 69-102 when the
\* store is not connected): a request arrives; a locationId that is not 24
\* characters long or a malformed date is answered 400; with the store
\* connected the cache lookup is issued
weather_getForecast(p) ==
    /\ pc[p] = "idle"
    /\ \E r \in WeatherRequests :
        /\ r.op = "getForecast"
        /\ req' = [req EXCEPT ![p] = r]
        /\ IF r.locationId = InvalidLocation
           THEN /\ WeatherRespond(p, "getForecast", 400,
                      "Invalid locationId format. Must be a valid MongoDB ObjectId.", <<>>)
                /\ UNCHANGED loc
           ELSE IF r.date = MalformedDate
           THEN /\ WeatherRespond(p, "getForecast", 400, "Invalid date format. Use YYYY-MM-DD.", <<>>)
                /\ UNCHANGED loc
           ELSE \E readyState \in BOOLEAN :
                  IF readyState
                  THEN /\ pc' = [pc EXCEPT ![p] = "findOne"]
                       /\ UNCHANGED <<resp, loc>>
                  ELSE weather_generate(p, FALSE)
    /\ UNCHANGED <<bookings, notifs, forecasts>>

\* lines 49-91: findOne answers; a cached forecast is returned with
\* cached: true, without one a forecast is generated; a store error is
\* answered 500
weather_getForecast_found(p) ==
    /\ pc[p] = "findOne"
    /\ \E o \in ForecastStoreOutcomes :
        IF o = "error"
        THEN /\ WeatherRespond(p, "getForecast", 500, "Failed to generate weather forecast", <<>>)
             /\ UNCHANGED loc
        ELSE IF findForecast(req[p].locationId, req[p].date) # {}
        THEN /\ \E f \in findForecast(req[p].locationId, req[p].date) :
                    WeatherRespond(p, "getForecast", 200, "", <<ForecastData(f.temperature, TRUE)>>)
             /\ UNCHANGED loc
        ELSE \E readyState \in BOOLEAN : weather_generate(p, readyState)
    /\ UNCHANGED <<bookings, notifs, req, forecasts>>

\* lines 91-102: save() answers; the unique index on (locationId, date)
\* rejects a second document of the key; a failed save is only logged, and
\* 200 is sent with the forecast this request generated
weather_getForecast_saved(p) ==
    /\ pc[p] = "saveForecast"
    /\ \E o \in ForecastStoreOutcomes :
        IF o = "ok" /\ findForecast(req[p].locationId, req[p].date) = {}
        THEN forecasts' = forecasts \cup
                {[locationId |-> req[p].locationId, date |-> req[p].date,
                  temperature |-> loc[p].forecast[1].temperature,
                  deviation |-> loc[p].forecast[1].deviation]}
        ELSE UNCHANGED forecasts
    /\ WeatherRespond(p, "getForecast", 200, "", loc[p].forecast)
    /\ UNCHANGED <<bookings, notifs, req, loc>>

\* clearForecastCache: a DELETE request arrives; without a connected store
\* 200 is sent at once, otherwise deleteOne is issued
weather_clearForecastCache(p) ==
    /\ pc[p] = "idle"
    /\ \E r \in WeatherRequests, readyState \in BOOLEAN :
        /\ r.op = "clearForecastCache"
        /\ req' = [req EXCEPT ![p] = r]
        /\ IF readyState
           THEN pc' = [pc EXCEPT ![p] = "deleteOne"] /\ UNCHANGED resp
           ELSE WeatherRespond(p, "clearForecastCache", 200, "", <<>>)
    /\ UNCHANGED <<bookings, notifs, loc, forecasts>>

\* deleteOne answers: the cached forecast of the key, if any, is gone
weather_clearForecastCache_deleted(p) ==
    /\ pc[p] = "deleteOne"
    /\ \E o \in ForecastStoreOutcomes :
        IF o = "ok"
        THEN /\ forecasts' = forecasts \ findForecast(req[p].locationId, req[p].date)
             /\ WeatherRespond(p, "clearForecastCache", 200, "", <<>>)
        ELSE /\ WeatherRespond(p, "clearForecastCache", 500, "Failed to clear forecast cache", <<>>)
             /\ UNCHANGED forecasts
    /\ UNCHANGED <<bookings, notifs, req, loc>>

\* the weather service starts on an empty cache
InitWeather ==
    /\ bookings = <<>>
    /\ notifs = <<>>
    /\ pc = [p \in Procs |-> "idle"]
    /\ req = [p \in Procs |-> NoReq]
    /\ loc = [p \in Procs |-> NoLoc]
    /\ resp = [p \in Procs |-> NoResp]
    /\ forecasts = {}

NextWeather ==
    \/ \E p \in Procs : weather_getForecast(p)
    \/ \E p \in Procs : weather_getForecast_found(p)
    \/ \E p \in Procs : weather_getForecast_saved(p)
    \/ \E p \in Procs : weather_clearForecastCache(p)
    \/ \E p \in Procs : weather_clearForecastCache_deleted(p)

SpecWeather == InitWeather /\ [][NextWeather]_vars

(* ============================ the claims =============================== *)
Done(p) == pc[p] = "done"
\* slot p holds a createBooking request that protect let through
Creating(p) == req[p].op = "createBooking" /\ req[p].cred \in Users
\* documents i and j occupy the same (roomId, bookingDate) slot
SameSlot(i, j) ==
    /\ bookings[i].roomId = bookings[j].roomId
    /\ bookings[i].bookingDate = bookings[j].bookingDate
\* the error texts of a save() the store rejected
StoreErrors == {"E11000 duplicate key error", "store unavailable"}

\* C1: in every reachable state there is at most one booking with status
\* confirmed or completed for each (roomId, bookingDate) pair, whatever the
\* interleaving of createBooking and cancelBooking requests.
C1_OneLiveBookingPerSlot ==
    \A i, j \in Ids :
        (i # j /\ SameSlot(i, j))
            => ~(bookings[i].status \in {"confirmed", "completed"}
                 /\ bookings[j].status \in {"confirmed", "completed"})

\* C3: getForecast never raises to its caller: whatever failure the call to
\* the oracle meets, no handler sees an Error rethrown by the weather client.
C3_GetForecastNeverRaises ==
    \A p \in Procs : loc[p].raised = "none"

\* C4: a createBooking request (valid date, active room, free slot, store
\* accepting the insert) whose weather call failed still ends in 201, with
\* temperature = the comfortable temperature, deviation 0 and the base price
\* as adjusted price in its price breakdown.
C4_CreateSucceedsWithoutWeather ==
    \A p \in Procs :
        (/\ Done(p) /\ Creating(p)
         /\ (loc[p].raised # "none"
             \/ (loc[p].forecast # <<>> /\ loc[p].forecast[1].fallback))
         /\ resp[p].message \notin StoreErrors)
        => /\ resp[p].code = 201
           /\ resp[p].breakdown[1].temperature = COMFORTABLE_TEMPERATURE
           /\ resp[p].breakdown[1].deviation = 0
           /\ resp[p].breakdown[1].adjustedPrice = resp[p].breakdown[1].basePrice * 100

\* C8: createBooking accepts a date only if it is strictly later than today:
\* a request that has passed date validation names a date after today.
C8_AcceptedDateIsAfterToday ==
    \A p \in Procs :
        (Creating(p) /\ pc[p] \in {"validateRoom", "findExisting", "weather", "save"})
            => req[p].date > Today

\* a document of status confirmed or completed occupies the slot request p asks for
SlotTaken(p) ==
    \E i \in Ids : /\ bookings[i].roomId = req[p].roomId
                   /\ bookings[i].bookingDate = req[p].date
                   /\ bookings[i].status \in {"confirmed", "completed"}
\* the availability probe of request p answers in this step
ProbeAnswers(p) == pc[p] = "findExisting" /\ pc'[p] # "findExisting"

\* C2: when the probe of createBooking finds the slot held by a confirmed or
\* completed booking, the request ends with 400 'Room is already booked for
\* this date', the response carries the id and status of a live booking of
\* that slot, and the stored bookings (and the notifications) are unchanged.
C2_SlotAlreadyBooked ==
    [][\A p \in Procs :
        (ProbeAnswers(p) /\ SlotTaken(p))
        => /\ pc'[p] = "done"
           /\ resp'[p].code = 400
           /\ resp'[p].error = "Room is already booked for this date"
           /\ \E i \in Ids :
                /\ bookings[i].roomId = req[p].roomId
                /\ bookings[i].bookingDate = req[p].date
                /\ bookings[i].status \in {"confirmed", "completed"}
                /\ resp'[p].existing = <<[id |-> i, status |-> bookings[i].status]>>
           /\ bookings' = bookings
           /\ notifs' = notifs]_vars

\* a createBooking was refused for a slot that a completed booking holds
C2_Witness ==
    \E p \in Procs :
        /\ Done(p) /\ Creating(p)
        /\ resp[p].error = "Room is already booked for this date"
        /\ resp[p].existing # <<>>
        /\ resp[p].existing[1].status = "completed"
        /\ bookings[resp[p].existing[1].id].roomId = req[p].roomId

\* the response of the request that dispatched notification n
AnsweredOk(n, r) ==
    /\ r.data # <<>>
    /\ r.data[1].id = n.bookingId
    /\ IF n.type = "booking_confirmation"
       THEN r.op = "createBooking" /\ r.code = 201
       ELSE r.op = "cancelBooking" /\ r.code = 200

\* C5: a notification that settles, delivered or failed, changes no booking,
\* no response and no handler's position; and whatever the state of a
\* dispatched notification, the request that dispatched it keeps its 201/200
\* answer and the booking keeps what the request stored (it exists; after a
\* cancellation its status is cancelled).
C5_NotificationNeverAffectsOutcome ==
    [][/\ (Len(notifs') = Len(notifs) /\ notifs' # notifs)
            => (bookings' = bookings /\ resp' = resp /\ pc' = pc)
       /\ \A i \in 1..Len(notifs') :
            /\ \E p \in Procs : AnsweredOk(notifs'[i], resp'[p])
            /\ notifs'[i].bookingId \in 1..Len(bookings')
            /\ notifs'[i].type = "booking_cancellation"
                  => bookings'[notifs'[i].bookingId].status = "cancelled"]_vars

\* a booking was created and then cancelled, both notifications failed, and
\* both requests were answered 201 and 200
C5_Witness ==
    \E i, j \in 1..Len(notifs) :
        /\ notifs[i].type = "booking_confirmation" /\ notifs[i].state = "failed"
        /\ notifs[j].type = "booking_cancellation" /\ notifs[j].state = "failed"
        /\ notifs[i].bookingId = notifs[j].bookingId
        /\ \E p, q \in Procs : /\ AnsweredOk(notifs[i], resp[p])
                               /\ AnsweredOk(notifs[j], resp[q])
        /\ bookings[notifs[j].bookingId].status = "cancelled"

\* request p is a cancelBooking by the owner of an existing booking or an admin
CancelByOwnerOrAdmin(p) ==
    /\ req[p].op = "cancelBooking"
    /\ req[p].id \in Ids
    /\ (req[p].cred = bookings[req[p].id].userId \/ RoleOf(req[p].cred) = "admin")

\* C6: cancelBooking by the owner or an admin: on a booking read as confirmed
\* it goes on to save, and when save answers the status is cancelled, one
\* cancellation notification is dispatched and 200 is sent (500 and nothing
\* changed if the store rejects the write); on a booking read as cancelled it
\* answers 400 'Booking is already cancelled', on one read as completed 400
\* 'Cannot cancel completed bookings', leaving bookings and notifications as
\* they were.
C6_CancelStateMachine ==
    [][\A p \in Procs :
        /\ (pc[p] = "route" /\ pc'[p] # "route" /\ CancelByOwnerOrAdmin(p))
           => LET status == bookings[req[p].id].status
              IN  /\ status = "confirmed"
                        => pc'[p] = "cancelSave" /\ resp'[p].code = 0
                  /\ status = "cancelled"
                        => /\ resp'[p].code = 400
                           /\ resp'[p].error = "Booking is already cancelled"
                  /\ status = "completed"
                        => /\ resp'[p].code = 400
                           /\ resp'[p].error = "Cannot cancel completed bookings"
                  /\ status # "confirmed"
                        => bookings' = bookings /\ notifs' = notifs
        /\ (pc[p] = "cancelSave" /\ pc'[p] # "cancelSave")
           => \/ /\ resp'[p].code = 200
                 /\ bookings'[req[p].id].status = "cancelled"
                 /\ \A i \in Ids : i # req[p].id => bookings'[i] = bookings[i]
                 /\ notifs' = Append(notifs, [type |-> "booking_cancellation",
                                              bookingId |-> req[p].id,
                                              state |-> "pending"])
              \/ /\ resp'[p].code = 500
                 /\ bookings' = bookings /\ notifs' = notifs]_vars

\* a booking was cancelled with 200 and the next cancelBooking of the same
\* booking was answered 'Booking is already cancelled'
C6_Witness ==
    \E p, q \in Procs :
        /\ p # q /\ req[p].id = req[q].id
        /\ resp[p].op = "cancelBooking" /\ resp[p].code = 200
        /\ resp[q].op = "cancelBooking"
        /\ resp[q].error = "Booking is already cancelled"
        /\ bookings[req[p].id].status = "cancelled"
        /\ Len(notifs) = 1

Stranger(p, owner) == req[p].cred # owner /\ RoleOf(req[p].cred) # "admin"
\* the handler of request p runs its first stretch in this step
Handled(p) == pc[p] = "route" /\ pc'[p] # "route"

\* C9: getBookingById and cancelBooking on an existing booking, and
\* getUserBookings for a user: a principal who is neither the owner nor an
\* admin is answered 403, is shown no booking, and changes no booking and no
\* notification; the owner and every admin are never answered 403 (the read
\* operations answer them 200).
C9_OwnerOrAdmin ==
    [][\A p \in Procs :
        /\ (Handled(p) /\ req[p].op \in {"getBookingById", "cancelBooking"}
                /\ req[p].id \in Ids)
           => IF Stranger(p, bookings[req[p].id].userId)
              THEN /\ resp'[p].code = 403 /\ resp'[p].data = <<>>
                   /\ bookings' = bookings /\ notifs' = notifs
              ELSE /\ resp'[p].code # 403
                   /\ req[p].op = "getBookingById"
                        => /\ resp'[p].code = 200
                           /\ resp'[p].data = <<[id |-> req[p].id,
                                                 status |-> bookings[req[p].id].status]>>
        /\ (Handled(p) /\ req[p].op = "getUserBookings")
           => IF Stranger(p, req[p].userId)
              THEN /\ resp'[p].code = 403 /\ resp'[p].data = <<>>
                   /\ bookings' = bookings /\ notifs' = notifs
              ELSE /\ resp'[p].code = 200
                   /\ \A k \in DOMAIN resp'[p].data :
                        bookings[resp'[p].data[k].id].userId = req[p].userId]_vars

\* one principal was refused the cancellation of a booking with 403 and
\* another cancelled the same booking with 200
C9_Witness ==
    \E p, q \in Procs :
        /\ resp[p].op = "cancelBooking" /\ resp[p].code = 403
        /\ resp[q].op = "cancelBooking" /\ resp[q].code = 200
        /\ req[p].id = req[q].id
        /\ req[p].cred = "bob" /\ bookings[req[p].id].userId = "alice"

\* C10: getAllBookings: a principal whose role is not admin is answered 403
\* and shown no booking; an admin is answered 200, and without a date filter
\* the answer holds every stored booking that passes the status and roomId
\* filters, whoever owns it (all stored bookings when no filter is given).
C10_ListAllAdminOnly ==
    [][\A p \in Procs :
        (Handled(p) /\ req[p].op = "getAllBookings")
        => IF RoleOf(req[p].cred) # "admin"
           THEN /\ resp'[p].code = 403 /\ resp'[p].data = <<>>
                /\ bookings' = bookings
           ELSE /\ resp'[p].code = 200
                /\ req[p].date = NoDate
                     => {resp'[p].data[k].id : k \in DOMAIN resp'[p].data}
                        = {i \in Ids :
                             /\ (req[p].status # "" => bookings[i].status = req[p].status)
                             /\ (req[p].roomId # "" => bookings[i].roomId = req[p].roomId)}]_vars

\* an admin's unfiltered listing shows bookings of two different users
C10_Witness ==
    \E p \in Procs :
        /\ resp[p].op = "getAllBookings" /\ resp[p].code = 200
        /\ req[p].status = "" /\ req[p].roomId = "" /\ req[p].date = NoDate
        /\ \E k, l \in DOMAIN resp[p].data :
              bookings[resp[p].data[k].id].userId
                  # bookings[resp[p].data[l].id].userId

\* request p came without a bearer token or with a token the identity
\* service rejects
Unverified(r) == r.cred \in {"noToken", "badToken"}

\* C11: a request of any booking operation that arrives without a bearer
\* token, or with a token the identity service rejects, is answered 401 in
\* the step in which it arrives; no handler position is ever taken for it (no
\* controller runs, so no catalog, weather or store call is issued for it),
\* it changes no booking, dispatches no notification, and its answer stays.
C11_UnverifiedIs401 ==
    [][\A p \in Procs :
        /\ (pc[p] = "idle" /\ pc'[p] # "idle" /\ Unverified(req'[p]))
              => /\ resp'[p].code = 401
                 /\ resp'[p].data = <<>> /\ resp'[p].bookedDates = <<>>
                 /\ bookings' = bookings /\ notifs' = notifs
        /\ (pc'[p] # "idle" /\ Unverified(req'[p]))
              => /\ pc'[p] = "done"
                 /\ loc'[p] = NoLoc
                 /\ resp'[p].code = 401]_vars

\* a createBooking without a token and an availability query with a rejected
\* token were both answered 401
C11_Witness ==
    \E p, q \in Procs :
        /\ req[p].op = "createBooking" /\ req[p].cred = "noToken"
        /\ resp[p].code = 401 /\ resp[p].error = "Access denied. No token provided."
        /\ req[q].op = "checkRoomAvailability" /\ req[q].cred = "badToken"
        /\ resp[q].code = 401 /\ resp[q].error = "Invalid or expired token"

\* the bookings that occupy a day of startDate..endDate, both ends included,
\* in room roomId
Occupying(roomId, startDate, endDate) ==
    {i \in Ids : /\ bookings[i].roomId = roomId
                 /\ startDate <= bookings[i].bookingDate
                 /\ bookings[i].bookingDate <= endDate
                 /\ bookings[i].status \in {"confirmed", "completed"}}

\* C12: checkRoomAvailability with both dates given answers 200 with exactly
\* the dates d, startDate <= d <= endDate, on which the room has a confirmed
\* or completed booking (a date held only by cancelled bookings is not among
\* them), one entry per such booking and bookingsCount their number, and
\* changes no booking and dispatches no notification.
C12_AvailabilityExact ==
    [][\A p \in Procs :
        (Handled(p) /\ req[p].op = "checkRoomAvailability"
            /\ req[p].startDate # NoDate /\ req[p].endDate # NoDate)
        => LET occ == Occupying(req[p].roomId, req[p].startDate, req[p].endDate)
               got == resp'[p].bookedDates
           IN  /\ resp'[p].code = 200
               /\ {got[k] : k \in DOMAIN got} = {bookings[i].bookingDate : i \in occ}
               /\ Len(got) = Cardinality(occ)
               /\ resp'[p].bookingsCount = Cardinality(occ)
               /\ bookings' = bookings /\ notifs' = notifs]_vars

\* a query from today to a two-digit day was answered with today alone, the
\* first day of its range, while a cancelled booking of the room lies in the
\* range on another day
C12_Witness ==
    \E p \in Procs :
        /\ resp[p].op = "checkRoomAvailability" /\ resp[p].code = 200
        /\ req[p].endDate = MaxQueryDate
        /\ resp[p].bookedDates = <<req[p].startDate>>
        /\ resp[p].bookingsCount = 1
        /\ \E i \in Ids :
              /\ bookings[i].roomId = req[p].roomId
              /\ bookings[i].status = "cancelled"
              /\ bookings[i].bookingDate > req[p].startDate
              /\ bookings[i].bookingDate <= req[p].endDate

\* the call in slot p has returned out for the arguments in
Priced(p) == pc[p] = "done" /\ resp[p].op = "calculateAdjustedPrice"
\* basePrice * (1 + deviation * factor) for the arguments in, in hundredths
\* of a cent
ExactPrice(in) ==
    in.basePrice
      * (100 + (IF in.temperature < in.comfortableTemp
                THEN in.comfortableTemp - in.temperature
                ELSE in.temperature - in.comfortableTemp) * in.factor)
\* the arguments (basePrice in dollars, temperature) with comfortable
\* temperature 21 and factor 0.05
Example(dollars, temperature) ==
    [basePrice |-> dollars * 100, temperature |-> temperature,
     comfortableTemp |-> 21, factor |-> 5]

C14_DuplicateKeyIsSlotAlreadyBooked ==
    \A p \in Procs :
        (Done(p) /\ Creating(p) /\ resp[p].message = "E11000 duplicate key error")
            => /\ resp[p].code = 400
               /\ resp[p].error = "Room is already booked for this date"

\* C15: createBooking answers the three failures of the catalog call with
\* three different outcomes: 404 when the room does not exist, 400 when it is
\* inactive, 503 when the catalog cannot be reached or answers an error; and
\* none of them goes on to the probe or the weather call or answers with a
\* booking.
C15_CatalogFailuresDistinct ==
    \A p \in Procs :
        (Done(p) /\ Creating(p))
        => /\ resp[p].message = "Room not found" => resp[p].code = 404
           /\ resp[p].message = "Room is not available for booking"
                 => resp[p].code = 400
           /\ resp[p].message = "connect ECONNREFUSED" => resp[p].code = 503
           /\ resp[p].message \in {"Room not found", "Room is not available for booking",
                                   "connect ECONNREFUSED"}
                 => resp[p].data = <<>> /\ loc[p] = NoLoc

\* the place of a handler position in the order of createBooking's steps:
\* date validation, room validation, availability probe, weather forecast,
\* then price, save, notification and response
StepRank(label) ==
    CASE label = "idle" -> 0
      [] label = "verifyToken" -> 1
      [] label = "route" -> 1
      [] label = "validateRoom" -> 2
      [] label = "findExisting" -> 3
      [] label = "weather" -> 4
      [] label = "save" -> 5
      [] OTHER -> 6

\* C16: a createBooking call takes its steps in the order date validation,
\* room validation, availability probe, weather forecast, price and save,
\* notification and response: each step of the call leads to the next step or
\* ends the call, and an ended call takes no further step.  A malformed or
\* past date ends it before the catalog call; the forecast is obtained only
\* by the weather step; a booking is stored, its confirmation dispatched and
\* 201 answered, with the price at the forecast temperature, only by the
\* step that follows the weather step.
C16_CreateStepOrder ==
    [][/\ \A i \in 1..Len(notifs') :
            (i > Len(notifs) /\ notifs'[i].type = "booking_confirmation")
                => \E q \in Procs : /\ pc[q] = "save" /\ pc'[q] = "done"
                                    /\ resp'[q].code = 201
                                    /\ resp'[q].data[1].id = notifs'[i].bookingId
       /\ Len(bookings') # Len(bookings)
            => \E q \in Procs : pc[q] = "save" /\ resp'[q].code = 201
       /\ \A p \in Procs :
        (req'[p].op = "createBooking")
        => /\ pc'[p] # pc[p]
                => \/ StepRank(pc'[p]) = StepRank(pc[p]) + 1
                   \/ (pc'[p] = "done" /\ resp'[p].code # 0)
           /\ pc[p] = "done" => (resp'[p] = resp[p] /\ loc'[p] = loc[p])
           /\ (pc[p] = "route" /\ (req[p].date = MalformedDate \/ req[p].date < Today))
                => pc'[p] \in {"route", "done"}
           /\ loc'[p].room # loc[p].room => pc[p] = "validateRoom"
           /\ [loc'[p] EXCEPT !.room = <<>>] # [loc[p] EXCEPT !.room = <<>>]
                => pc[p] = "weather"
           /\ (pc'[p] = "save" /\ pc[p] # "save") => loc'[p].forecast # <<>>
           /\ (resp'[p].code = 201 /\ resp[p].code # 201)
                => /\ pc[p] = "save"
                   /\ resp'[p].breakdown[1].temperature = loc[p].forecast[1].temperature
                   /\ bookings' = Append(bookings, bookings'[Len(bookings')])
                   /\ bookings'[Len(bookings')].temperature = loc[p].forecast[1].temperature
                   /\ notifs' = Append(notifs, [type |-> "booking_confirmation",
                                                bookingId |-> Len(bookings'),
                                                state |-> "pending"])]_vars

\* one createBooking went through all its steps and was answered 201, and
\* another was ended by the date validation with none of the later steps
C16_Witness ==
    \E p, q \in Procs :
        /\ resp[p].op = "createBooking" /\ resp[p].code = 201
        /\ loc[p].forecast # <<>>
        /\ resp[q].op = "createBooking" /\ resp[q].code = 400
        /\ resp[q].error = "Validation failed"
        /\ loc[q] = NoLoc
        /\ Len(notifs) = 1

\* C17: the weather oracle is called for a createBooking request only in the
\* step in which its availability probe answers and no confirmed or completed
\* booking holds the slot; a request refused with 'Room is already booked for
\* this date' ends there, with no forecast obtained and no oracle failure met.
C17_WeatherOnlyAfterFreeProbe ==
    [][\A p \in Procs :
        /\ (pc'[p] = "weather" /\ pc[p] # "weather")
              => /\ pc[p] = "findExisting"
                 /\ ~SlotTaken(p)
        /\ resp'[p].error = "Room is already booked for this date"
              => /\ pc'[p] = "done"
                 /\ [loc'[p] EXCEPT !.room = <<>>] = NoLoc
        /\ (loc'[p].forecast # <<>> \/ loc'[p].raised # "none")
              => resp'[p].error # "Room is already booked for this date"]_vars

\* one createBooking was refused for an occupied slot without a forecast, and
\* another, for a free slot, obtained its forecast
C17_Witness ==
    \E p, q \in Procs :
        /\ Creating(p) /\ Done(p)
        /\ resp[p].error = "Room is already booked for this date"
        /\ [loc[p] EXCEPT !.room = <<>>] = NoLoc
        /\ Creating(q) /\ loc[q].forecast # <<>>
        /\ req[q].roomId # req[p].roomId

\* C18: a notification is dispatched only by the step of a createBooking or
\* cancelBooking request whose save was accepted: a confirmation for a
\* booking that this step leaves stored with status confirmed, a cancellation
\* for a booking that it leaves stored as cancelled; a step that ends a
\* request with an error dispatches none.
C18_NotifyOnlyAfterPersist ==
    [][/\ Len(notifs') <= Len(notifs) + 1
       /\ \A i \in 1..Len(notifs') :
            i > Len(notifs)
            => LET n == notifs'[i]
               IN  /\ n.bookingId \in 1..Len(bookings')
                   /\ IF n.type = "booking_confirmation"
                      THEN /\ bookings'[n.bookingId].status = "confirmed"
                           /\ n.bookingId = Len(bookings) + 1
                           /\ \E q \in Procs : /\ pc[q] = "save"
                                               /\ resp'[q].code = 201
                      ELSE /\ n.type = "booking_cancellation"
                           /\ bookings'[n.bookingId].status = "cancelled"
                           /\ \E q \in Procs : /\ pc[q] = "cancelSave"
                                               /\ resp'[q].code = 200
                                               /\ req[q].id = n.bookingId
       /\ \A p \in Procs :
            (pc[p] # "done" /\ pc'[p] = "done" /\ resp'[p].code >= 400)
                => notifs' = notifs]_vars

\* a cancellation was dispatched for a booking stored as cancelled, and a
\* createBooking that failed dispatched nothing
C18_Witness ==
    \E p, q \in Procs :
        /\ resp[p].op = "cancelBooking" /\ resp[p].code = 200
        /\ bookings[req[p].id].status = "cancelled"
        /\ notifs # <<>>
        /\ notifs[1].type = "booking_cancellation"
        /\ notifs[1].bookingId = req[p].id
        /\ resp[q].op = "createBooking" /\ resp[q].code = 500
        /\ Len(notifs) = 1

\* C19: the response does not wait for the notification: the step of a
\* createBooking or cancelBooking request in which the store accepts the
\* write also sends the response (201 / 200) and leaves the notification it
\* dispatched pending; so whenever a notification is pending, however long,
\* the request that dispatched it is already answered, and no request that
\* is not yet answered has written to the store.
C19_ResponseDoesNotAwaitNotification ==
    [][/\ \A p \in Procs :
            (pc[p] \in {"save", "cancelSave"} /\ pc'[p] # pc[p] /\ bookings' # bookings)
            => /\ pc'[p] = "done"
               /\ resp'[p].code = IF pc[p] = "save" THEN 201 ELSE 200
               /\ Len(notifs') = Len(notifs) + 1
               /\ notifs'[Len(notifs')].state = "pending"
       /\ \A i \in 1..Len(notifs') :
            notifs'[i].state = "pending"
                => \E p \in Procs : /\ pc'[p] = "done"
                                    /\ AnsweredOk(notifs'[i], resp'[p])
       /\ bookings' # bookings
            => \E p \in Procs : pc[p] # "done" /\ pc'[p] = "done"]_vars

\* a createBooking was answered 201 and the cancelBooking of that booking 200
\* while both their notifications are still pending
C19_Witness ==
    \E p, q \in Procs :
        /\ resp[p].op = "createBooking" /\ resp[p].code = 201
        /\ resp[q].op = "cancelBooking" /\ resp[q].code = 200
        /\ req[q].id = resp[p].data[1].id
        /\ Len(notifs) = 2
        /\ notifs[1].state = "pending" /\ notifs[2].state = "pending"

\* C20: of the cancelBooking requests for one booking at most one is answered
\* 200, whatever their interleaving, and at most one cancellation
\* notification is dispatched for the booking.
C20_OneCancelSucceeds ==
    \A i \in Ids :
        /\ Cardinality({p \in Procs : /\ resp[p].op = "cancelBooking"
                                      /\ resp[p].code = 200
                                      /\ req[p].id = i}) <= 1
        /\ Cardinality({k \in 1..Len(notifs) :
                            /\ notifs[k].type = "booking_cancellation"
                            /\ notifs[k].bookingId = i}) <= 1

\* C21: the only status transition the booking service performs is
\* confirmed -> cancelled: in every step, a stored booking whose status
\* changes was confirmed and becomes cancelled (so a cancelled or completed
\* booking keeps its status and none becomes completed), and a booking that
\* the step adds has status confirmed.
C21_OnlyConfirmedToCancelled ==
    [][/\ Len(bookings') >= Len(bookings)
       /\ \A i \in 1..Len(bookings') :
            IF i <= Len(bookings)
            THEN bookings'[i].status # bookings[i].status
                    => /\ bookings[i].status = "confirmed"
                       /\ bookings'[i].status = "cancelled"
            ELSE bookings'[i].status = "confirmed"]_vars

\* a cancelBooking of a completed booking was refused and left it completed,
\* while a booking created by the other request was stored as confirmed
C21_Witness ==
    \E p, q \in Procs :
        /\ req[p].op = "cancelBooking" /\ Done(p)
        /\ resp[p].error = "Cannot cancel completed bookings"
        /\ bookings[req[p].id].status = "completed"
        /\ Creating(q) /\ resp[q].code = 201
        /\ bookings[resp[q].data[1].id].status = "confirmed"

\* C22: after a booking has been created, every field other than status
\* (userId, roomId, bookingDate, bookingReference, basePrice, temperature,
\* deviation, adjustedPrice, userEmail, userName, roomName, locationName)
\* keeps its creation-time value: no step of any operation (cancelBooking,
\* a later createBooking, a later forecast, a later reading of a renamed or
\* repriced room) changes it, and no step removes a booking record.
C22_FieldsImmutable ==
    [][/\ Len(bookings') >= Len(bookings)
       /\ \A i \in 1..Len(bookings) :
            [bookings'[i] EXCEPT !.status = bookings[i].status] = bookings[i]]_vars

\* a booking created from the room as first listed was cancelled and still
\* carries the price, the temperature and the names of its creation
C22_Witness ==
    \E p, q \in Procs :
        /\ Creating(p) /\ resp[p].code = 201
        /\ loc[p].room = <<RoomSnapshot(req[p].roomId, "listed")>>
        /\ req[q].op = "cancelBooking" /\ resp[q].code = 200
        /\ req[q].id = resp[p].data[1].id
        /\ LET b == bookings[req[q].id]
           IN  /\ b.status = "cancelled"
               /\ b.roomName = loc[p].room[1].name
               /\ b.basePrice = loc[p].room[1].basePrice
               /\ b.adjustedPrice = resp[p].breakdown[1].adjustedPrice
               /\ b.temperature = MAX_TEMP

\* C23: a createBooking call that does not return success (invalid date,
\* catalog failure, slot conflict, weather or store failure) leaves the
\* stored bookings exactly as they were: every step of a createBooking
\* request that does not answer 201 leaves the collection unchanged, so no
\* partial record or hold remains and the slot can be requested again.
C23_FailedCreateLeavesNothing ==
    [][\A p \in Procs :
        (req'[p].op = "createBooking" /\ pc'[p] # pc[p] /\ resp'[p].code # 201)
            => bookings' = bookings]_vars

\* a createBooking that reached save() and was answered 500 left nothing:
\* the only booking of its slot is the one of the other request, answered 201
C23_Witness ==
    \E p, q \in Procs :
        /\ Creating(p) /\ Done(p) /\ resp[p].code = 500 /\ loc[p].forecast # <<>>
        /\ Creating(q) /\ resp[q].code = 201
        /\ req[q].roomId = req[p].roomId /\ req[q].date = req[p].date
        /\ {i \in Ids : bookings[i].roomId = req[p].roomId
                          /\ bookings[i].bookingDate = req[p].date}
              = {resp[q].data[1].id}

\* C24: the step in which a createBooking is answered 201 stores one
\* booking, with status confirmed, the requested room and date, userId,
\* userEmail and userName of the authenticated principal, roomName,
\* locationName and basePrice of the room snapshot the catalog returned in
\* this call, temperature, deviation and adjustedPrice equal to those of
\* the returned price breakdown, the temperature being the forecast's, and
\* deviation and adjustedPrice a result of the price calculator for
\* (basePrice, temperature, comfortable temperature, adjustment factor).
C24_StoredBookingMatchesCall ==
    [][\A p \in Procs :
        (req'[p].op = "createBooking" /\ resp'[p].code = 201 /\ resp[p].code # 201)
        => /\ Len(bookings') = Len(bookings) + 1
           /\ resp'[p].data[1].id = Len(bookings')
           /\ LET b == bookings'[Len(bookings')]
                  room == loc[p].room[1]
                  shown == resp'[p].breakdown[1]
              IN  /\ b.status = "confirmed"
                  /\ b.roomId = req[p].roomId /\ b.bookingDate = req[p].date
                  /\ b.userId = req[p].cred
                  /\ b.userEmail = EmailOf(req[p].cred)
                  /\ b.userName = NameOf(req[p].cred)
                  /\ b.roomName = room.name
                  /\ b.locationName = room.locationName
                  /\ b.basePrice = room.basePrice
                  /\ shown.basePrice = b.basePrice
                  /\ shown.temperature = b.temperature
                  /\ shown.deviation = b.deviation
                  /\ shown.adjustedPrice = b.adjustedPrice
                  /\ b.temperature = loc[p].forecast[1].temperature
                  /\ [deviation |-> b.deviation, adjustedPrice |-> b.adjustedPrice]
                        \in calculateAdjustedPrice(b.basePrice * 100, b.temperature,
                                                   COMFORTABLE_TEMPERATURE,
                                                   PRICE_ADJUSTMENT_FACTOR)]_vars

\* bob booked room r2, read from the revised catalog, at the warmest
\* forecast: the stored booking carries bob's name, the revised room's name
\* and price, and the price adjusted for six degrees
C24_Witness ==
    \E p \in Procs :
        /\ Creating(p) /\ resp[p].code = 201 /\ req[p].cred = "bob"
        /\ LET b == bookings[resp[p].data[1].id]
           IN  /\ b.userName = NameOf("bob")
               /\ b.roomName = RoomSnapshot("r2", "revised").name
               /\ b.basePrice = RoomSnapshot("r2", "revised").basePrice
               /\ b.temperature = MAX_TEMP /\ b.deviation = MAX_TEMP - COMFORTABLE_TEMPERATURE
               /\ b.adjustedPrice > b.basePrice * 100

\* the steps a request in slot p can take
RequestStep(p) ==
    \/ protect(p) \/ createBooking_start(p) \/ createBooking_room(p)
    \/ createBooking_probe(p) \/ createBooking_weather(p) \/ createBooking_save(p)
    \/ getUserBookings(p) \/ getBookingById(p) \/ cancelBooking_find(p)
    \/ cancelBooking_save(p) \/ getAllBookings(p) \/ checkRoomAvailability(p)

\* C25: every external call on the createBooking path is bounded by a
\* timeout, so that a createBooking request gets a response even if a
\* collaborator never answers: a createBooking request that has not been
\* answered can always take a step (the call it waits on answers, fails or
\* times out), whatever the other request is waiting on.
C25_EveryCallBounded ==
    \A p \in Procs :
        (req[p].op = "createBooking" /\ pc[p] \notin {"idle", "done"})
            => ENABLED RequestStep(p)

\* C26: a failure to reach the identity service is reported as
\* IdentityUnavailable, an outcome distinct from Unauthenticated: a request
\* whose identity call failed on the network is answered with a status other
\* than the 401 of a missing or rejected token, and with another error text
\* than theirs.
C26_IdentityUnavailableDistinct ==
    \A p \in Procs :
        (Done(p) /\ req[p].cred = "authDown")
            => /\ resp[p].code # 401
               /\ resp[p].error \notin {"Invalid or expired token",
                                         "Access denied. No token provided."}

\* C27: while a forecast for (locationId, date) is cached, every forecast
\* request for that key returns the cached temperature, also when two
\* requests for an uncached key run concurrently: a request that found the
\* store connected and is answered 200 returns the temperature of the
\* forecast that is cached for its key when it is answered; at most one
\* forecast is stored per key, and every returned temperature lies in
\* MIN_TEMP..MAX_TEMP.
C27_CachedForecastReturned ==
    [][/\ \A f, g \in forecasts' :
            (f.locationId = g.locationId /\ f.date = g.date) => f = g
       /\ \A p \in Procs :
            (resp'[p].op = "getForecast" /\ resp'[p].code = 200 /\ resp[p].code = 0)
            => /\ resp'[p].forecast[1].temperature \in MIN_TEMP..MAX_TEMP
               /\ pc[p] # "idle"
                    => \A f \in findForecast(req[p].locationId, req[p].date)' :
                          resp'[p].forecast[1].temperature = f.temperature]_vars

\* C28: getUserBookings answers with exactly the bookings of the requested
\* user (of the given status, when a status filter is supplied), ordered by
\* bookingDate descending, bookings of the same bookingDate by creation time
\* descending (the later created first), so that the stored bookings
\* determine the order.
C28_UserBookingsOrder ==
    [][\A p \in Procs :
        (Handled(p) /\ resp'[p].op = "getUserBookings" /\ resp'[p].code = 200)
        => LET data == resp'[p].data
           IN  /\ {data[k].id : k \in DOMAIN data}
                     = {i \in Ids : /\ bookings[i].userId = req[p].userId
                                     /\ (req[p].status # ""
                                           => bookings[i].status = req[p].status)}
               /\ \A k, l \in DOMAIN data :
                    k < l => \/ bookings[data[k].id].bookingDate
                                  > bookings[data[l].id].bookingDate
                             \/ /\ bookings[data[k].id].bookingDate
                                      = bookings[data[l].id].bookingDate
                                /\ data[k].id > data[l].id]_vars

\* C29: the admin's list of all bookings returns exactly the stored bookings
\* that match every supplied filter: status equal to the status filter,
\* bookingDate equal to the date filter, roomId equal to the roomId filter;
\* all bookings when no filter is supplied.
C29_ListAllFilters ==
    [][\A p \in Procs :
        (Handled(p) /\ resp'[p].op = "getAllBookings" /\ resp'[p].code = 200)
        => LET data == resp'[p].data
           IN  {data[k].id : k \in DOMAIN data}
                 = {i \in Ids : /\ (req[p].status # ""
                                       => bookings[i].status = req[p].status)
                                 /\ (req[p].roomId # ""
                                       => bookings[i].roomId = req[p].roomId)
                                 /\ (req[p].date # NoDate
                                       => bookings[i].bookingDate = req[p].date)}]_vars

\* the properties of the calculator that hold for every basePrice >= 0 and
\* factor >= 0: for the calls in slots p and q, the adjusted price is never
\* below the base price; it is the base price at the comfortable
\* temperature; for the same base price, comfortable temperature and
\* factor, a larger distance from the comfortable temperature gives no
\* smaller price, and the same distance on either side gives the same price
\* (unless the exact product lies on a half cent, where the model leaves
\* the rounding open)
PriceLaws(p, q) ==
    LET in == loc[p]
        out == resp[p].breakdown[1]
        dp == Abs(loc[p].temperature - loc[p].comfortableTemp)
        dq == Abs(loc[q].temperature - loc[q].comfortableTemp)
    IN  /\ out.adjustedPrice >= in.basePrice
        /\ in.temperature = in.comfortableTemp => out.adjustedPrice = in.basePrice
        /\ (/\ loc[q].basePrice = in.basePrice
            /\ loc[q].comfortableTemp = in.comfortableTemp
            /\ loc[q].factor = in.factor)
           => /\ dp < dq => out.adjustedPrice <= resp[q].breakdown[1].adjustedPrice
              /\ (dp = dq /\ ExactPrice(in) % 100 # 50)
                    => out.adjustedPrice = resp[q].breakdown[1].adjustedPrice

====
